---- MODULE Spec2Model ----
(***************************************************************************)
(* The pstate system call of xv6 (sys_pstate, kernel/proc.c) run against   *)
(* a process table and a CPU array that the process manager and the        *)
(* scheduler change concurrently.                                          *)
(*                                                                         *)
(* sys_pstate is translated statement by statement from the handler; the   *)
(* process manager and the scheduler are the environment: they are not     *)
(* part of the handler and are modelled after the locking contract the     *)
(* handler relies on (a slot's pid, state and name change only under the   *)
(* slot's lock; the parent link of a child is rewritten by the exiting     *)
(* parent under the wait lock, which the handler does not take).           *)
(***************************************************************************)
EXTENDS Integers, Sequences, FiniteSets

(* ---------------------------------------------------------------- bounds *)
NPROC == 3      \* slots of the process table, proc[1..NPROC]
NCPU == 2       \* CPU descriptors, cpus[0..NCPU-1]
MaxEnvOps == 2  \* operations of the process manager and the schedulers in one run

Slots == 1..NPROC
Cpus == 0..(NCPU - 1)

(* ------------------------------------------------------- process states *)
UNUSED == "UNUSED"
USED == "USED"
SLEEPING == "SLEEPING"
RUNNABLE == "RUNNABLE"
RUNNING == "RUNNING"
ZOMBIE == "ZOMBIE"

(* A name is a fixed buffer of two characters; NUL ends the string early. *)
NUL == "NUL"
InitName == <<"i", "n">>
ExecNames == {<<"s", "h">>, <<"p", "i">>}
NoName == <<NUL, NUL>>

(* Values of the local char *parent_name: the two string literals, or the  *)
(* address of the name buffer of a slot (the slot index; 0 is the address  *)
(* computed from a null parent).                                           *)
PN_NONE == 0 - 1
PN_UNKNOWN == 0 - 2
PN_INIT == 0 - 3
UnknownLabel == <<"???">>
InitLabel == <<"(init)">>

VARIABLES
    proc,             \* proc[s]: [pid, state, name, parent, lock]
    cpus,             \* cpus[c]: slot the CPU is running, 0 when idle
    nextpid,          \* next pid allocproc hands out
    envops,           \* operations the process manager and schedulers have done
    pc,               \* position of the sys_pstate call
    p,                \* loop variable of the table pass (slot index)
    total_processes,  \* local counter
    parent_name,      \* local pointer, see PN_*
    args,             \* printf in progress: values already formatted
    i,                \* loop variable of the CPU phase
    proc_on_cpu,      \* local copy of cpus[i].proc
    out,              \* console output of the call, one record per line
    retval,           \* value returned to the caller
    seen,             \* history: the fields of the slot in use, as they were when
                      \* its lock was taken (table pass) or when the CPU's
                      \* pointer to it was read (CPU phase)
    prev,             \* history: the output of the call before this one
    steady            \* history: the slots (with the pid) that have held the same
                      \* process in an active state ever since this call began

vars == <<proc, cpus, nextpid, envops, pc, p, total_processes, parent_name, args, i,
          proc_on_cpu, out, retval, seen, prev, steady>>
reporter == <<pc, p, total_processes, parent_name, args, i, proc_on_cpu, out,
              retval, seen>>
env == <<cpus, nextpid, envops>>

NoArgs == [pid |-> 0, st |-> "", name |-> <<>>, parent |-> <<>>, pbuf |-> NoName]
NotSeen == [slot |-> 0, pid |-> 0, state |-> UNUSED, name |-> NoName, parent |-> 0]
FreeSlot == [pid |-> 0, state |-> UNUSED, name |-> NoName, parent |-> 0,
             lock |-> "free"]

States == {UNUSED, USED, SLEEPING, RUNNABLE, RUNNING, ZOMBIE}
Active == {SLEEPING, RUNNABLE, RUNNING}

\* The tables a call can find. Slot 1 holds init (pid 1). Every other slot
\* is unused or holds a live process; pids are distinct and do
\* not follow the slot order (slots are reused); a parent link is null or
\* refers to an older live process; the root's stored parent link is null
\* or refers to the last slot. A process is RUNNING exactly when one CPU
\* has it as its current process.
PidOf(s) == IF s = 1 THEN 1 ELSE NPROC + 2 - s
NameOf(pid) ==
    IF pid = 1 THEN InitName
    ELSE IF pid % 2 = 0 THEN <<"s", "h">> ELSE <<"p", "i">>

TableOK(st, par) ==
    /\ st[1] \in Active
    /\ par[1] \in {0, NPROC}
    /\ \A s \in Slots \ {1} :
          IF st[s] = UNUSED THEN par[s] = 0
          ELSE \/ par[s] = 0
               \/ /\ par[s] # 0
                  /\ st[par[s]] \in Active
                  /\ PidOf(par[s]) < PidOf(s)

CpusOK(st, cp) ==
    /\ \A c \in Cpus : cp[c] # 0 => st[cp[c]] = RUNNING
    /\ \A s \in Slots : st[s] = RUNNING => \E c \in Cpus : cp[c] = s
    /\ \A c, d \in Cpus : (cp[c] # 0 /\ cp[c] = cp[d]) => c = d

Init ==
    /\ \E st \in [Slots -> Active \cup {UNUSED}], par \in [Slots -> 0..NPROC] :
          /\ TableOK(st, par)
          /\ proc = [s \in Slots |->
                       IF st[s] = UNUSED THEN FreeSlot
                       ELSE [pid |-> PidOf(s), state |-> st[s],
                             name |-> NameOf(PidOf(s)), parent |-> par[s],
                             lock |-> "free"]]
          /\ cpus \in {cp \in [Cpus -> 0..NPROC] : CpusOK(st, cp)}
    /\ nextpid = NPROC + 1
    /\ envops = 0
    /\ pc = "idle"
    /\ p = 1
    /\ total_processes = 0
    /\ parent_name = PN_NONE
    /\ args = NoArgs
    /\ i = 0
    /\ proc_on_cpu = 0
    /\ out = <<>>
    /\ retval = 0 - 1
    /\ seen = NotSeen
    /\ prev = <<>>
    /\ steady = {}

(* ------------------------------------------------------ pure operators *)

\* A filter that also lets zombies through.
IsActiveOrZombie(st) == st = SLEEPING \/ st = RUNNING \/ st = RUNNABLE \/ st = ZOMBIE

\* The filter of the table pass.
IsActive(st) == st = SLEEPING \/ st = RUNNING \/ st = RUNNABLE

\* pstate_states[]: the display string of a state. The array has entries
\* for the three active states; any other index has no string.
pstate_statesShifted(st) ==
    IF st = SLEEPING THEN RUNNABLE
    ELSE IF st = RUNNABLE THEN RUNNING
    ELSE IF st = RUNNING THEN ZOMBIE
    ELSE "(null)"

pstate_states(st) == IF st \in {SLEEPING, RUNNABLE, RUNNING} THEN st ELSE "(null)"

\* A counter incremented outside the if: every slot is counted.
CountEverySlot(t, st) == t + 1

\* total_processes after the filter has looked at a slot in state st.
CountAfter(t, st) == IF IsActive(st) THEN t + 1 ELSE t

\* parent_name without the special case for pid 1.
ResolveParentNoRoot(pid, parent) ==
    IF parent # 0 THEN parent ELSE PN_UNKNOWN

\* parent_name without the null check.
ResolveParentNoNull(pid, parent) ==
    IF pid = 1 THEN PN_INIT ELSE parent

\* The value parent_name has when the row is printed.
ResolveParent(pid, parent) ==
    IF pid = 1 THEN PN_INIT
    ELSE IF parent # 0 THEN parent
    ELSE PN_UNKNOWN

\* The string a two-character buffer holds: %s stops at the first NUL.
CString(buf) ==
    IF buf[1] = NUL THEN <<>>
    ELSE IF buf[2] = NUL THEN <<buf[1]>>
    ELSE buf

\* The lines of the output. A row carries, beside its four columns, the
\* history of how its parent column came about: src is the value of
\* parent_name, pbuf1 and pbuf2 are the contents of the buffer it points to
\* when the first and the last character were read. A CPU line carries the
\* pointer read from the descriptor (ref) and the pid that slot had at the
\* moment of that read (was); its text is "idle" or "running".
Row(slot, a, label, src, buf2) ==
    [k |-> "row", slot |-> slot, pid |-> a.pid, st |-> a.st, name |-> a.name,
     parent |-> label, src |-> src, pbuf1 |-> a.pbuf, pbuf2 |-> buf2]
TotalLine(n) == [k |-> "total", n |-> n]
CpuLine(c, txt, ref, pid, was) ==
    [k |-> "cpu", cpu |-> c, txt |-> txt, ref |-> ref, pid |-> pid, was |-> was]
Header == [k |-> "header"]

(* ------------------------------------------------------------ sys_pstate *)

\* The history variable steady follows every step.
Track ==
    steady' = IF pc \in {"idle", "done"}
              THEN IF pc' = "acquire"
                   THEN {[slot |-> s, pid |-> proc'[s].pid] :
                            s \in {t \in Slots : proc'[t].state \in Active}}
                   ELSE steady
              ELSE {e \in steady : /\ proc'[e.slot].state \in Active
                                    /\ proc'[e.slot].pid = e.pid}

\* A step that is not the start of a second call.
History == prev' = prev /\ Track

\* A counter that is static: it is not set to 0 when the function is entered.
EnterCallStaticTotal ==
    /\ total_processes' = total_processes
    /\ out' = <<Header>>
    /\ p' = 1
    /\ pc' = "acquire"
    /\ seen' = NotSeen
    /\ UNCHANGED <<proc, cpus, nextpid, envops, parent_name, args, i, proc_on_cpu, retval>>

\* The function is entered: the locals are initialised and the header is
\* printed (out holds the lines of the call in progress).
EnterCall ==
    /\ total_processes' = 0
    /\ out' = <<Header>>
    /\ p' = 1
    /\ pc' = "acquire"
    /\ seen' = NotSeen
    /\ UNCHANGED <<proc, cpus, nextpid, envops, parent_name, args, i, proc_on_cpu, retval>>

\* The first call.
SysEnter ==
    /\ pc = "idle"
    /\ EnterCall
    /\ History

\* A second call right after the first has returned (user/pstate.c run
\* again): the output of the first is kept aside for comparison.
SysAgain ==
    /\ pc = "done"
    /\ prev = <<>>
    /\ prev' = out
    /\ EnterCall
    /\ Track

\* The table pass without acquire: the slot is read unlocked.
SysAcquireSkipped ==
    /\ pc = "acquire"
    /\ seen' = [slot |-> p, pid |-> proc[p].pid, state |-> proc[p].state,
                name |-> proc[p].name, parent |-> proc[p].parent]
    /\ pc' = "check"
    /\ UNCHANGED <<proc, cpus, nextpid, envops, p, total_processes, parent_name,
                   args, i, proc_on_cpu, out, retval>>
    /\ History

\* acquire(&p->lock): spins until the lock is free, then takes it.
SysAcquire ==
    /\ pc = "acquire"
    /\ proc[p].lock = "free"
    /\ proc' = [proc EXCEPT ![p].lock = "rep"]
    /\ seen' = [slot |-> p, pid |-> proc[p].pid, state |-> proc[p].state,
                name |-> proc[p].name, parent |-> proc[p].parent]
    /\ pc' = "check"
    /\ UNCHANGED <<cpus, nextpid, envops, p, total_processes, parent_name, args, i,
                   proc_on_cpu, out, retval>>
    /\ History

\* The filter with "p->pid = 1" for "p->pid == 1": the test stores.
SysCheckAssigns ==
    /\ pc = "check"
    /\ total_processes' = CountAfter(total_processes, proc[p].state)
    /\ IF IsActive(proc[p].state)
       THEN /\ proc' = [proc EXCEPT ![p].pid = 1]
            /\ parent_name' = PN_INIT
            /\ pc' = "print"
       ELSE /\ proc' = proc
            /\ parent_name' = parent_name
            /\ pc' = "release"
    /\ UNCHANGED <<cpus, nextpid, envops, p, args, i, proc_on_cpu, out, retval, seen>>
    /\ History

\* The filter, the counter and the choice of parent_name.
\* The filter as "if (inactive) continue;": the release at the end of the
\* loop body is jumped over.
SysCheckContinue ==
    /\ pc = "check"
    /\ total_processes' = CountAfter(total_processes, proc[p].state)
    /\ IF IsActive(proc[p].state)
       THEN /\ parent_name' = ResolveParent(proc[p].pid, proc[p].parent)
            /\ pc' = "print"
            /\ p' = p
       ELSE /\ parent_name' = parent_name
            /\ pc' = IF p + 1 <= NPROC THEN "acquire" ELSE "total"
            /\ p' = p + 1
    /\ UNCHANGED <<proc, cpus, nextpid, envops, args, i, proc_on_cpu, out, retval, seen>>
    /\ History

SysCheck ==
    /\ pc = "check"
    /\ total_processes' = CountAfter(total_processes, proc[p].state)
    /\ IF IsActive(proc[p].state)
       THEN /\ parent_name' = ResolveParent(proc[p].pid, proc[p].parent)
            /\ pc' = "print"
       ELSE /\ parent_name' = parent_name
            /\ pc' = "release"
    /\ UNCHANGED <<proc, cpus, nextpid, envops, p, args, i, proc_on_cpu, out, retval, seen>>
    /\ History

\* printf of the row: the arguments p->pid and pstate_states[p->state] are
\* evaluated, p->name is formatted, and the string parent_name points to
\* is read: a literal at once, a name buffer one character per step.
SysPrint ==
    /\ pc = "print"
    /\ LET a == [pid |-> proc[p].pid, st |-> pstate_states(proc[p].state),
                 name |-> CString(proc[p].name), parent |-> <<>>,
                 pbuf |-> IF parent_name \in Slots THEN proc[parent_name].name
                          ELSE NoName]
       IN  IF parent_name = PN_INIT \/ parent_name = PN_UNKNOWN
           THEN /\ out' = Append(out, Row(p, a,
                              IF parent_name = PN_INIT THEN InitLabel
                              ELSE UnknownLabel, parent_name, NoName))
                /\ args' = NoArgs
                /\ pc' = "release"
           ELSE IF parent_name \notin Slots
           THEN \* a load through a null pointer: the kernel traps
                /\ out' = out
                /\ args' = a
                /\ pc' = "panic"
           ELSE IF proc[parent_name].name[1] = NUL
           THEN /\ out' = Append(out, Row(p, a, <<>>, parent_name, a.pbuf))
                /\ args' = NoArgs
                /\ pc' = "release"
           ELSE /\ out' = out
                /\ args' = [a EXCEPT !.parent = <<proc[parent_name].name[1]>>]
                /\ pc' = "print2"
    /\ UNCHANGED <<proc, cpus, nextpid, envops, p, total_processes, parent_name, i,
                   proc_on_cpu, retval, seen>>
    /\ History

\* printf goes on: the second character of the parent's name buffer.
SysPrint2 ==
    /\ pc = "print2"
    /\ LET c == proc[parent_name].name[2]
           label == IF c = NUL THEN args.parent ELSE Append(args.parent, c)
       IN  out' = Append(out, Row(p, args, label, parent_name,
                                  proc[parent_name].name))
    /\ args' = NoArgs
    /\ pc' = "release"
    /\ UNCHANGED <<proc, cpus, nextpid, envops, p, total_processes, parent_name, i,
                   proc_on_cpu, retval, seen>>
    /\ History

\* The loop with the bound off by one: the last slot is not visited.
SysReleaseShortLoop ==
    /\ pc = "release"
    /\ proc' = [proc EXCEPT ![p].lock = "free"]
    /\ p' = p + 1
    /\ pc' = IF p + 1 < NPROC THEN "acquire" ELSE "total"
    /\ parent_name' = PN_NONE
    /\ seen' = NotSeen
    /\ UNCHANGED <<cpus, nextpid, envops, total_processes, args, i, proc_on_cpu, out,
                   retval>>
    /\ History

\* The loop body without release(&p->lock).
SysReleaseForgotten ==
    /\ pc = "release"
    /\ p' = p + 1
    /\ pc' = IF p + 1 <= NPROC THEN "acquire" ELSE "total"
    /\ parent_name' = PN_NONE
    /\ seen' = NotSeen
    /\ UNCHANGED <<proc, cpus, nextpid, envops, total_processes, args, i, proc_on_cpu,
                   out, retval>>
    /\ History

\* release(&p->lock); p++ and the loop test.
SysRelease ==
    /\ pc = "release"
    /\ proc' = [proc EXCEPT ![p].lock = "free"]
    /\ p' = p + 1
    /\ pc' = IF p + 1 <= NPROC THEN "acquire" ELSE "total"
    /\ parent_name' = PN_NONE
    /\ seen' = NotSeen
    /\ UNCHANGED <<cpus, nextpid, envops, total_processes, args, i, proc_on_cpu, out,
                   retval>>
    /\ History

\* printf("total: %d\n", total_processes); i = 0.
SysTotal ==
    /\ pc = "total"
    /\ out' = Append(out, TotalLine(total_processes))
    /\ i' = 0
    /\ pc' = "cpu"
    /\ UNCHANGED <<proc, cpus, nextpid, envops, p, total_processes, parent_name, args,
                   proc_on_cpu, retval, seen>>
    /\ History

\* The CPU phase without the null test.
SysCpuReadNoTest ==
    /\ pc = "cpu"
    /\ proc_on_cpu' = cpus[i]
    /\ pc' = "cpupid"
    /\ seen' = IF cpus[i] = 0 THEN NotSeen
               ELSE [slot |-> cpus[i], pid |-> proc[cpus[i]].pid,
                     state |-> proc[cpus[i]].state, name |-> proc[cpus[i]].name,
                     parent |-> proc[cpus[i]].parent]
    /\ UNCHANGED <<proc, cpus, nextpid, envops, p, total_processes, parent_name, args,
                   retval, i, out>>
    /\ History

\* proc_on_cpu = cpus[i].proc; the idle line when it is null.
SysCpuRead ==
    /\ pc = "cpu"
    /\ proc_on_cpu' = cpus[i]
    /\ IF cpus[i] # 0
       THEN /\ pc' = "cpupid"
            /\ seen' = [slot |-> cpus[i], pid |-> proc[cpus[i]].pid,
                        state |-> proc[cpus[i]].state, name |-> proc[cpus[i]].name,
                        parent |-> proc[cpus[i]].parent]
            /\ UNCHANGED <<i, out>>
       ELSE /\ out' = Append(out, CpuLine(i, "idle", 0, 0, 0))
            /\ i' = i + 1
            /\ pc' = IF i + 1 < NCPU THEN "cpu" ELSE "ret"
            /\ seen' = seen
    /\ UNCHANGED <<proc, cpus, nextpid, envops, p, total_processes, parent_name, args,
                   retval>>
    /\ History

\* printf("cpu %d: running process %d\n", i, proc_on_cpu->pid).
SysCpuPid ==
    /\ pc = "cpupid"
    /\ IF proc_on_cpu \in Slots
       THEN /\ out' = Append(out, CpuLine(i, "running", proc_on_cpu,
                                          proc[proc_on_cpu].pid, seen.pid))
            /\ i' = i + 1
            /\ pc' = IF i + 1 < NCPU THEN "cpu" ELSE "ret"
       ELSE \* a load through a null pointer: the kernel traps
            /\ pc' = "panic"
            /\ UNCHANGED <<i, out>>
    /\ seen' = NotSeen
    /\ UNCHANGED <<proc, cpus, nextpid, envops, p, total_processes, parent_name, args,
                   proc_on_cpu, retval>>
    /\ History

\* "return total_processes" for "return 0".
SysReturnTotal ==
    /\ pc = "ret"
    /\ retval' = total_processes
    /\ pc' = "done"
    /\ UNCHANGED <<proc, cpus, nextpid, envops, p, total_processes, parent_name, args, i,
                   proc_on_cpu, out, seen>>
    /\ History

\* return 0.
SysReturn ==
    /\ pc = "ret"
    /\ retval' = 0
    /\ pc' = "done"
    /\ UNCHANGED <<proc, cpus, nextpid, envops, p, total_processes, parent_name, args, i,
                   proc_on_cpu, out, seen>>
    /\ History

sys_pstate ==
    \/ SysEnter
    \/ SysAcquire
    \/ SysCheck
    \/ SysPrint
    \/ SysPrint2
    \/ SysRelease
    \/ SysTotal
    \/ SysCpuRead
    \/ SysCpuPid
    \/ SysReturn

(* ------------------------------------ process manager and scheduler *)

EnvHolds(s) == proc[s].lock = "env"
Finish(s, rec) == [proc EXCEPT ![s] = [rec EXCEPT !.lock = "free"]]
CpuOf(s) == CHOOSE c \in Cpus : cpus[c] = s

\* acquire(&p->lock) by the process manager or a scheduler.
EnvAcquire(s) ==
    /\ proc[s].lock = "free"
    /\ \A t \in Slots : proc[t].lock # "env"
    /\ envops < MaxEnvOps
    /\ proc' = [proc EXCEPT ![s].lock = "env"]
    /\ UNCHANGED <<env, reporter>>
    /\ History

\* release(&p->lock) after a look at the slot that changed nothing.
EnvRelease(s) ==
    /\ EnvHolds(s)
    /\ proc' = Finish(s, proc[s])
    /\ UNCHANGED <<env, reporter>>
    /\ History

\* fork by the running process f: allocproc takes the first unused slot,
\* gives it a fresh pid, the parent's name and the parent link.
Fork(f, s) ==
    /\ EnvHolds(s)
    /\ proc[s].state = UNUSED
    /\ \A t \in Slots : t < s => proc[t].state # UNUSED
    /\ proc[f].state = RUNNING
    /\ proc' = Finish(s, [proc[s] EXCEPT !.pid = nextpid, !.state = USED,
                                         !.name = proc[f].name, !.parent = f])
    /\ nextpid' = nextpid + 1
    /\ envops' = envops + 1
    /\ UNCHANGED <<cpus, reporter>>
    /\ History

\* The end of fork, and wakeup.
SetRunnable(s) ==
    /\ EnvHolds(s)
    /\ proc[s].state \in {USED, SLEEPING}
    /\ proc' = Finish(s, [proc[s] EXCEPT !.state = RUNNABLE])
    /\ envops' = envops + 1
    /\ UNCHANGED <<cpus, nextpid, reporter>>
    /\ History

\* exec by the running process: a new name.
Exec(s, nm) ==
    /\ EnvHolds(s)
    /\ proc[s].state = RUNNING
    /\ proc[s].pid # 1
    /\ proc[s].name # nm
    /\ proc' = Finish(s, [proc[s] EXCEPT !.name = nm])
    /\ envops' = envops + 1
    /\ UNCHANGED <<cpus, nextpid, reporter>>
    /\ History

\* The scheduler of CPU c switches to the runnable process in slot s.
Run(s, c) ==
    /\ EnvHolds(s)
    /\ proc[s].state = RUNNABLE
    /\ cpus[c] = 0
    /\ proc' = Finish(s, [proc[s] EXCEPT !.state = RUNNING])
    /\ cpus' = [cpus EXCEPT ![c] = s]
    /\ envops' = envops + 1
    /\ UNCHANGED <<nextpid, reporter>>
    /\ History

\* yield and sleep: the process gives up its CPU.
Yield(s) ==
    /\ EnvHolds(s)
    /\ proc[s].state = RUNNING
    /\ proc' = Finish(s, [proc[s] EXCEPT !.state = RUNNABLE])
    /\ cpus' = [cpus EXCEPT ![CpuOf(s)] = 0]
    /\ envops' = envops + 1
    /\ UNCHANGED <<nextpid, reporter>>
    /\ History

Sleep(s) ==
    /\ EnvHolds(s)
    /\ proc[s].state = RUNNING
    /\ proc' = Finish(s, [proc[s] EXCEPT !.state = SLEEPING])
    /\ cpus' = [cpus EXCEPT ![CpuOf(s)] = 0]
    /\ envops' = envops + 1
    /\ UNCHANGED <<nextpid, reporter>>
    /\ History

\* exit: the children go to init (their parent link is rewritten under the
\* wait lock, not under their own lock), the process becomes a zombie and
\* leaves its CPU. init never exits.
Exit(s) ==
    /\ EnvHolds(s)
    /\ proc[s].state = RUNNING
    /\ proc[s].pid # 1
    /\ proc' = [t \in Slots |->
                  IF t = s THEN [proc[s] EXCEPT !.state = ZOMBIE, !.lock = "free"]
                  ELSE IF proc[t].parent = s THEN [proc[t] EXCEPT !.parent = 1]
                  ELSE proc[t]]
    /\ cpus' = [cpus EXCEPT ![CpuOf(s)] = 0]
    /\ envops' = envops + 1
    /\ UNCHANGED <<nextpid, reporter>>
    /\ History

\* wait by the running parent: freeproc of the zombie child (pid = 0,
\* parent = 0, name[0] = 0, state = UNUSED).
Free(s) ==
    /\ EnvHolds(s)
    /\ proc[s].state = ZOMBIE
    /\ proc[s].parent # 0
    /\ proc[proc[s].parent].state = RUNNING
    /\ proc' = Finish(s, [proc[s] EXCEPT !.pid = 0, !.parent = 0,
                                         !.name = <<NUL, proc[s].name[2]>>,
                                         !.state = UNUSED])
    /\ envops' = envops + 1
    /\ UNCHANGED <<cpus, nextpid, reporter>>
    /\ History

Environment ==
    \/ \E s \in Slots : EnvAcquire(s)
    \/ \E s \in Slots : EnvRelease(s)
    \/ \E f, s \in Slots : Fork(f, s)
    \/ \E s \in Slots : SetRunnable(s)
    \/ \E s \in Slots : \E nm \in ExecNames : Exec(s, nm)
    \/ \E s \in Slots : \E c \in Cpus : Run(s, c)
    \/ \E s \in Slots : Yield(s)
    \/ \E s \in Slots : Sleep(s)
    \/ \E s \in Slots : Exit(s)
    \/ \E s \in Slots : Free(s)

Next == sys_pstate \/ Environment

Spec == Init /\ [][Next]_vars

\* Two calls in a row on a system where nothing else runs.
QuietNext == sys_pstate \/ SysAgain

\* The table of the README's sample run: init, its child sh and sh's child
\* pi, which runs on CPU 0; the other CPUs are idle.
SampleTable ==
    [s \in Slots |->
        IF s = 1 THEN [pid |-> 1, state |-> RUNNABLE, name |-> InitName,
                       parent |-> 0, lock |-> "free"]
        ELSE IF s = 2 THEN [pid |-> 2, state |-> SLEEPING, name |-> <<"s", "h">>,
                            parent |-> 1, lock |-> "free"]
        ELSE IF s = 3 THEN [pid |-> 3, state |-> RUNNING, name |-> <<"p", "i">>,
                            parent |-> 2, lock |-> "free"]
        ELSE FreeSlot]
SampleCpus == [c \in Cpus |-> IF c = 0 THEN 3 ELSE 0]

SampleInit ==
    /\ proc = SampleTable
    /\ cpus = SampleCpus
    /\ nextpid = NPROC + 1
    /\ envops = 0
    /\ pc = "idle"
    /\ p = 1
    /\ total_processes = 0
    /\ parent_name = PN_NONE
    /\ args = NoArgs
    /\ i = 0
    /\ proc_on_cpu = 0
    /\ out = <<>>
    /\ retval = 0 - 1
    /\ seen = NotSeen
    /\ prev = <<>>
    /\ steady = {}

QuietInit == Init \/ SampleInit

QuietSpec == QuietInit /\ [][QuietNext]_vars

\* Fairness: the call keeps running; a spinning acquire gets the lock if the
\* lock is free again and again; whoever else holds a slot lock releases it.
Fairness ==
    /\ WF_vars(SysEnter \/ SysCheck \/ SysPrint \/ SysPrint2 \/ SysRelease \/ SysTotal
                \/ SysCpuRead \/ SysCpuPid \/ SysReturn)
    /\ SF_vars(SysAcquire)
    /\ WF_vars(\E s \in Slots : EnvRelease(s))

FairSpec == Spec /\ Fairness

(* ================================================================ claims *)

RowIdx == {j \in 1..Len(out) : out[j].k = "row"}
TotalIdx == {j \in 1..Len(out) : out[j].k = "total"}
CpuIdx == {j \in 1..Len(out) : out[j].k = "cpu"}
RowsOfSlot(s) == {j \in RowIdx : out[j].slot = s}
HoldsSlot == pc \in {"check", "print", "print2", "release"}

\* C1: the number on the total line is the number of rows printed before it,
\* whatever the process manager and the schedulers did during the call.
C1_TotalEqualsRows ==
    /\ \A j \in TotalIdx : out[j].n = Cardinality({m \in RowIdx : m < j})
    /\ pc \in {"acquire", "check", "release", "total"} =>
          total_processes = Cardinality(RowIdx)

\* C1 witness: a finished call that printed two rows, skipped a slot and ran
\* beside environment operations.
C1_Witness ==
    /\ pc = "done"
    /\ envops > 0
    /\ \E j \in TotalIdx : out[j].n = 2 /\ NPROC > 2

\* C2: when the reporter is done with a slot, it has printed a row for it
\* exactly if the state it found under the slot's lock was SLEEPING, RUNNABLE
\* or RUNNING; any other state gives no row and adds nothing to the count.
C2_RowIffActive ==
    /\ pc = "release" =>
          /\ (RowsOfSlot(p) # {}) <=> (seen.state \in {SLEEPING, RUNNABLE, RUNNING})
          /\ seen.state \notin {SLEEPING, RUNNABLE, RUNNING} =>
                total_processes = Cardinality({j \in RowIdx : out[j].slot < p})
    /\ pc \in {"print", "print2"} => seen.state \in {SLEEPING, RUNNABLE, RUNNING}
    /\ \A j \in RowIdx : out[j].st \in {SLEEPING, RUNNABLE, RUNNING}
    /\ \A s \in Slots : Cardinality(RowsOfSlot(s)) <= 1

\* C2 witness: the reporter has just passed over a zombie after printing a row.
C2_Witness ==
    /\ pc = "release"
    /\ seen.state = ZOMBIE
    /\ RowsOfSlot(p) = {}
    /\ RowIdx # {}

\* C3: a row with pid 1 has the parent column "(init)", taken from the
\* literal and not through the parent link, whatever that link is.
C3_RootLabel ==
    /\ \A j \in RowIdx :
          out[j].pid = 1 => out[j].parent = InitLabel /\ out[j].src = PN_INIT
    /\ (pc \in {"print", "print2"} /\ seen.pid = 1) => parent_name = PN_INIT
    /\ pc # "panic"

\* C3 witness: the row of pid 1 is out while the stored parent link of that
\* slot is non-null and refers to an unused slot.
C3_Witness ==
    \E j \in RowIdx :
        /\ out[j].pid = 1
        /\ proc[out[j].slot].parent # 0
        /\ proc[proc[out[j].slot].parent].state = UNUSED

DisplayString(st) ==
    CASE st = SLEEPING -> "SLEEPING"
      [] st = RUNNABLE -> "RUNNABLE"
      [] st = RUNNING -> "RUNNING"
      [] OTHER -> "none"

\* C5: the pid, state and name columns of a row are the values the slot's
\* fields had together at the instant the reporter took the slot's lock.
C5_RowIsOneInstant ==
    /\ HoldsSlot => proc[p].lock = "rep"
    /\ pc = "release" =>
          \A j \in RowsOfSlot(p) :
             /\ out[j].pid = seen.pid
             /\ out[j].st = DisplayString(seen.state)
             /\ out[j].name = CString(seen.name)
    /\ HoldsSlot =>
          /\ proc[p].pid = seen.pid
          /\ proc[p].state = seen.state
          /\ proc[p].name = seen.name

\* C5 witness: a row of a later slot is out after the environment has
\* changed the table during the call.
C5_Witness ==
    /\ pc = "release"
    /\ p > 1
    /\ RowsOfSlot(p) # {}
    /\ envops = MaxEnvOps
    /\ \E s \in Slots : s < p /\ RowsOfSlot(s) # {} /\
          \E j \in RowsOfSlot(s) : out[j].st # proc[s].state

Last(q) == q[Len(q)]
ReporterStep == reporter' # reporter

\* C6: the CPU phase prints one line per CPU index: "running" with a pid when
\* the pointer it read from the descriptor was non-null, "idle" when it was
\* null; a null pointer is never followed.
C6_CpuLines ==
    /\ [](/\ \A c \in Cpus :
               Cardinality({j \in CpuIdx : out[j].cpu = c}) =
                  (IF pc \in {"ret", "done"} \/ (pc \in {"cpu", "cpupid"} /\ c < i)
                   THEN 1 ELSE 0)
          /\ \A j \in CpuIdx : out[j].cpu \in Cpus
          /\ \A j \in CpuIdx : out[j].txt = "running" <=> out[j].ref # 0
          /\ pc # "panic")
    /\ [][/\ (pc = "cpu" /\ ReporterStep) =>
               IF cpus[i] = 0
               THEN /\ out' = Append(out, Last(out'))
                    /\ Last(out').k = "cpu"
                    /\ Last(out').cpu = i
                    /\ Last(out').txt = "idle"
               ELSE /\ out' = out
                    /\ pc' = "cpupid"
                    /\ proc_on_cpu' = cpus[i]
          /\ (pc = "cpupid" /\ ReporterStep) =>
               /\ out' = Append(out, Last(out'))
               /\ Last(out').k = "cpu"
               /\ Last(out').cpu = i
               /\ Last(out').txt = "running"
               /\ Last(out').ref = proc_on_cpu
               /\ proc_on_cpu # 0]_vars

\* C6 witness: a finished call with a running line and an idle line.
C6_Witness ==
    /\ pc = "done"
    /\ \E j, m \in CpuIdx : out[j].txt = "running" /\ out[m].txt = "idle"

\* C7: the pid of a "running process" line is the pid of the process the CPU
\* was running when the reporter read the descriptor; it is never the pid
\* value of a freed slot nor the pid of another process.
C7_RunningPidIsCurrent ==
    \A j \in CpuIdx :
        out[j].txt = "running" => out[j].pid # 0 /\ out[j].pid = out[j].was

\* C8: header first, then the rows by increasing slot index, then one total
\* line once the last slot has been visited, then the CPU lines by
\* increasing index 0..NCPU-1, then nothing.
C8_OutputOrder ==
    /\ pc = "idle" <=> out = <<>>
    /\ \A j \in 1..Len(out) : out[j].k = "header" <=> j = 1
    /\ \A a, b \in RowIdx : a < b => out[a].slot < out[b].slot
    /\ \A j \in RowIdx : out[j].slot \in Slots /\ out[j].slot <= p
    /\ Cardinality(TotalIdx) = (IF pc \in {"cpu", "cpupid", "ret", "done"} THEN 1 ELSE 0)
    /\ TotalIdx # {} => p = NPROC + 1
    /\ \A t \in TotalIdx : \A r \in RowIdx : r < t
    /\ \A t \in TotalIdx : \A c \in CpuIdx : t < c
    /\ CpuIdx # {} => TotalIdx # {}
    /\ \A c \in CpuIdx : out[c].cpu = Cardinality({d \in CpuIdx : d < c})
    /\ pc = "done" =>
          /\ Cardinality(CpuIdx) = NCPU
          /\ Len(out) = 1 + Cardinality(RowIdx) + 1 + NCPU
          /\ Last(out).k = "cpu" /\ Last(out).cpu = NCPU - 1

\* C8 witness: a finished call whose rows are in slot order and not in pid
\* order.
C8_Witness ==
    /\ pc = "done"
    /\ \E a, b \in RowIdx : a < b /\ out[a].slot < out[b].slot /\ out[a].pid > out[b].pid

\* C9: under fairness a call that has begun gets every slot lock in turn,
\* completes and returns 0; it never traps and never ends with another value.
C9_Terminates ==
    /\ [](pc = "done" => retval = 0)
    /\ [](pc # "panic")
    /\ (pc # "idle") ~> (pc = "done" /\ retval = 0)

\* C9 witness: the reporter spins on the lock of the last slot, which the
\* process manager holds.
C9_Witness ==
    /\ pc = "acquire"
    /\ p = NPROC
    /\ proc[p].lock = "env"

\* C10: no step of the reporter changes the pid, state, name or parent of a
\* slot or the current process of a CPU; it changes only the lock of the
\* slot it is at, and holds no lock outside the visit of a slot.
C10_PureReader ==
    /\ [](\A s \in Slots : proc[s].lock = "rep" => HoldsSlot /\ s = p)
    /\ [][ReporterStep =>
            /\ cpus' = cpus
            /\ \A s \in Slots :
                  /\ proc'[s].pid = proc[s].pid
                  /\ proc'[s].state = proc[s].state
                  /\ proc'[s].name = proc[s].name
                  /\ proc'[s].parent = proc[s].parent
                  /\ proc'[s].lock # proc[s].lock => s = p]_vars

\* C10 witness: a finished call with rows printed and every lock free again.
C10_Witness ==
    /\ pc = "done"
    /\ Cardinality(RowIdx) = NPROC
    /\ \A s \in Slots : proc[s].lock = "free"

\* C11: on a system where nothing else runs, a second call right after the
\* first prints line for line what the first printed.
C11_SameOutputTwice == (pc = "done" /\ prev # <<>>) => out = prev

\* C11 witness: the second call has returned after a table with two rows or
\* more and a CPU that runs a process.
C11_Witness ==
    /\ pc = "done"
    /\ prev # <<>>
    /\ out = prev
    /\ Cardinality(RowIdx) >= 2
    /\ \E j \in CpuIdx : out[j].txt = "running"

\* The output of a finished call on the README's sample table, with a given
\* parent column: header, the rows of init, sh and pi, the total 3, and the
\* CPU lines (CPU 0 runs pid 3, every other CPU is idle).
SampleOutput(parents) ==
    (pc = "done" /\ proc = SampleTable /\ cpus = SampleCpus) =>
        /\ Len(out) = 5 + NCPU
        /\ out[1] = Header
        /\ \A j \in 2..4 :
              /\ out[j].k = "row"
              /\ out[j].pid = j - 1
              /\ out[j].st = <<"RUNNABLE", "SLEEPING", "RUNNING">>[j - 1]
              /\ out[j].name = <<InitName, <<"s", "h">>, <<"p", "i">>>>[j - 1]
              /\ out[j].parent = parents[j - 1]
        /\ out[5] = TotalLine(3)
        /\ \A c \in Cpus :
              /\ out[6 + c].k = "cpu"
              /\ out[6 + c].cpu = c
              /\ IF c = 0 THEN out[6 + c].txt = "running" /\ out[6 + c].pid = 3
                 ELSE out[6 + c].txt = "idle"

RepLocks == {s \in Slots : proc[s].lock = "rep"}

\* C13: the reporter holds at most one slot lock at any time, holds none
\* when it goes to acquire the next, and never takes a lock other than that
\* of the slot it is at: not the parent's while it reads the parent's name.
C13_OneLockAtATime ==
    /\ [](Cardinality(RepLocks) <= 1)
    /\ [](pc = "acquire" => RepLocks = {})
    /\ []((pc \in {"print", "print2"} /\ parent_name \in Slots) =>
             (parent_name # p /\ parent_name \notin RepLocks))
    /\ [][ReporterStep => (RepLocks' \ RepLocks) \subseteq {p}]_vars

\* C13 witness: the reporter is in the middle of reading the name of the
\* parent of a later slot while somebody else holds the parent's lock.
C13_Witness ==
    /\ pc = "print2"
    /\ p > 1
    /\ parent_name \in Slots
    /\ proc[parent_name].lock = "env"
    /\ RepLocks = {p}

\* C14 as stated: whenever the reporter reads a character of a parent's
\* name through the parent reference, the slot referred to is not UNUSED.
C14_ParentSlotLive ==
    [][(ReporterStep /\ pc \in {"print", "print2"} /\ parent_name \in Slots) =>
          proc[parent_name].state # UNUSED]_vars

\* C15 as stated: the parent column of a row made from a parent's name is,
\* in full, a string the parent's name buffer held at one moment of the
\* read.
C15_LabelNotTorn ==
    \A j \in RowIdx :
        out[j].src \in Slots =>
            out[j].parent \in {CString(out[j].pbuf1), CString(out[j].pbuf2)}

C17_LocksBalanced ==
    /\ [](pc \in {"idle", "acquire", "total", "cpu", "cpupid", "ret", "done"} =>
             RepLocks = {})
    /\ [](pc \in {"check", "print", "print2", "release"} => RepLocks = {p})
    /\ [][ReporterStep =>
            /\ pc = "acquire" => (RepLocks' = {p} /\ p' = p)
            /\ RepLocks' # RepLocks => pc \in {"acquire", "release"}
            /\ pc = "release" =>
                  (RepLocks' = {} /\ proc'[p].lock = "free" /\ p' = p + 1)
            /\ p' # p => ((pc = "idle" /\ p' = 1) \/ pc = "release")
            /\ (pc' = "total" /\ pc # "total") => p' = NPROC + 1]_vars

\* C17 witness: the total line is next, a slot that was not active has been
\* passed, rows are out and every lock is free.
C17_Witness ==
    /\ pc = "total"
    /\ RowIdx # {}
    /\ Cardinality(RowIdx) < NPROC
    /\ \A s \in Slots : proc[s].lock = "free"

\* C18: the slots are visited one after the other, each once; there are at
\* most NPROC rows and at most one row per slot, only of slots visited; and
\* a process that stayed active in its slot all through the call has
\* exactly one row, with its pid.
C18_EachSlotOnce ==
    /\ [](Cardinality(RowIdx) <= NPROC)
    /\ [](\A s \in Slots : Cardinality(RowsOfSlot(s)) <= 1)
    /\ [](\A j \in RowIdx : out[j].slot < p \/ (out[j].slot = p /\ HoldsSlot))
    /\ [](pc \in {"total", "cpu", "cpupid", "ret", "done"} =>
             /\ p = NPROC + 1
             /\ \A e \in steady :
                   /\ Cardinality(RowsOfSlot(e.slot)) = 1
                   /\ \A j \in RowsOfSlot(e.slot) : out[j].pid = e.pid)
    /\ [][ReporterStep =>
            \/ p' = p
            \/ pc = "idle" /\ p' = 1
            \/ pc = "release" /\ p' = p + 1 /\ p \in Slots]_vars

\* C18 witness: a call has returned; during it the table changed; one
\* process was active in its slot all along and another, which has a row,
\* was not.
C18_Witness ==
    /\ pc = "done"
    /\ envops = MaxEnvOps
    /\ steady # {}
    /\ \E s \in Slots : RowsOfSlot(s) # {} /\ \A e \in steady : e.slot # s

\* C19: no two rows of a call carry the same pid.
C19_DistinctPids ==
    \A a, b \in RowIdx : a # b => out[a].pid # out[b].pid

\* C19 witness: a call has returned with a row for every slot, one of them
\* for a process that was forked during the call.
C19_Witness ==
    /\ pc = "done"
    /\ Cardinality(RowIdx) = NPROC
    /\ \E j \in RowIdx : out[j].pid > NPROC

====
